---- MODULE Spec2Model ----
(***************************************************************************)
(* Job pipeline of backend/routes/titleGenRoutes.js: the title-generation  *)
(* worker processTitleGenJob, the translation worker processTranslationJob *)
(* and the start/resume, pause and delete handlers of both job types.      *)
(*                                                                         *)
(* One Job Record is modelled (one _id of one of the two collections).     *)
(* Every await of a worker that reads or writes the Job Record is a step   *)
(* of its own, so that supervisor requests and other worker runs of the    *)
(* same job interleave with it as they do on the event loop.  The field    *)
(* translatedCount / totalToTranslate of a translation job is modelled by  *)
(* the same record field as processedCount / totalToProcess.               *)
(***************************************************************************)
EXTENDS Integers, Sequences, FiniteSets, TLC

\* ---------------------------------------------------------------- bounds
\* The work has the chapters 1..NumChapters in its index.
NumChapters == 2
\* Worker runs of the job: the one launched by start, the others by resume.
MaxRuns == 2
\* Length of the credential list a run resolves when it is not empty.
NumKeys == 2
\* Rate-limit answers the provider gives to the runs of the job (the code
\* retries without a cap).
MaxQuotaErrors == 2
\* Commits of a chapter that throw, over the runs of the job.
MaxSaveErrors == 1
\* Calls of getGlobalSettings open at once.
MaxCallers == 3
\* Users of the reaction and view routes.
NumUsers == 2
\* View requests open at once.
MaxRequests == 2

Chapters == 1..NumChapters
Workers == 1..MaxRuns
Kinds == {"titlegen", "translation"}

\* Explicit chapter lists of a start request (duplicates and any order).
ChapterLists == UNION {[1..n -> Chapters] : n \in 0..NumChapters}

VARIABLES
    firestore,     \* the module-level `firestore` handle is set
    kind,          \* which collection the Job Record lives in
    jobState,      \* "none" (not created), "live", "deleted"
    job,           \* the Job Record
    pc,            \* position of each worker run
    loc,           \* local variables of each worker run
    quotaErrors,   \* rate-limit answers the provider has given so far
    hist,          \* history of the requests, for the scenarios about them
    store,         \* content store: title and content of the chapter documents
    metadata,      \* the work's index: chapters.$.title of the chapters
    saveErrors,    \* commits that have thrown so far
    glossary,      \* the Glossary collection: its documents, in insertion order
    novelStatus,   \* the work's visibility status
    settings,      \* the Settings collection: the number of its documents
    getting,       \* position of each getGlobalSettings call
    reactions,     \* novel.reactions: the list of user ids of each type
    reacting,      \* position of each user's reaction request
    views,         \* novel.views
    viewedBy,      \* novel.viewedBy: how often the array holds each view key
    viewing        \* position of each view request

\* What the public routes and getGlobalSettings keep, which no step of a
\* job touches.
site == <<settings, getting, reactions, reacting, views, viewedBy, viewing>>

vars == <<firestore, kind, jobState, job, pc, loc, quotaErrors, hist,
          store, metadata, saveErrors, glossary, novelStatus, site>>

\* What the commit of a chapter writes besides the Job Record: the two
\* places a chapter's title is kept in, the glossary and the status of the
\* work.
stores == <<store, metadata, glossary, novelStatus>>

\* The chapters whose documents are kept in `store` and `metadata`.  The
\* documents of a chapter are read and written under its number alone, so
\* the writes to the other chapters (an EXCEPT outside the domain) leave
\* the kept ones as they are.
Tracked == {c \in Chapters : c = 1}

\* ------------------------------------------------------------ Job Record
\* Schema defaults of the Job Record.
NewJob(target, keys, type) ==
    [ status         |-> "active",
      targetChapters |-> target,
      processedCount |-> 0,
      totalToProcess |-> Len(target),
      currentChapter |-> 0,
      apiKeys        |-> keys,
      lastLog        |-> type ]

NoJob == [NewJob(<<>>, 0, "none") EXCEPT !.status = "none"]

\* Local variables of a worker run before it is launched.
NoLoc ==
    [ chaptersToProcess |-> <<>>,  \* the sorted queue the loop iterates
      idx        |-> 0,            \* elements the for..of iterator has taken
      chapterNum |-> 0,            \* loop variable
      apiKeys    |-> 0,            \* job.apiKeys.length read at entry
      keys       |-> 0,            \* keys.length
      keyIndex   |-> 0,
      novelStatus |-> "none",      \* freshNovel.status
      delay      |-> "none" ]      \* the delay the iteration has ended with

\* $pull: { targetChapters: c } removes every occurrence of c.
Pull(s, c) == SelectSeq(s, LAMBDA x : x # c)

\* job.targetChapters.sort((a, b) => a - b)
SortAsc(s) == SortSeq(s, LAMBDA a, b : a < b)

\* The Job Record is in its collection.
Live == jobState = "live"

\* $push: { logs: { message, type, timestamp } }.  The log is append-only
\* and never read by the code; the record keeps the type of its last entry.
PushLog(j, type) == [j EXCEPT !.lastLog = type]

\* History of the supervisor's requests, kept by the specification of the
\* undisturbed runs (Smooth): `run` is the one run that had a chapter in
\* flight when the pause in force was written (0: none, or several runs),
\* `chapter` that chapter, `queue` the persisted queue at that moment;
\* `resumed` says that the last request resumed a paused job.
NoHist == [run |-> 0, chapter |-> 0, queue |-> <<>>, resumed |-> FALSE]

\* Calls of getGlobalSettings that may be open at once.
Callers == 1..MaxCallers

\* Users of the public routes, and the view requests that may be open at
\* once.
Users == 1..NumUsers
Requests == 1..MaxRequests

\* validTypes of the reaction route.
ValidTypes == {"like", "love", "funny", "sad", "angry"}

\* A reaction request that is not open: no type, no list read.
NoReaction == [pc |-> "idle", type |-> "none", had |-> {}]

\* viewKey = `${userId}_ch_${chapterNumber}`.
ViewKeys == Users \X Chapters

\* A view request that is not open.
NoView == [pc |-> "idle", key |-> <<0, 0>>, views |-> 0]

\* Visibility statuses of a work: private, ongoing, stopped, completed.
NovelStatuses == {"private", "ongoing", "stopped", "completed"}

Init ==
    /\ firestore \in BOOLEAN
    /\ kind = "none"
    /\ jobState = "none"
    /\ job = NoJob
    /\ pc = [w \in Workers |-> "idle"]
    /\ loc = [w \in Workers |-> NoLoc]
    /\ quotaErrors = 0
    /\ hist = NoHist
    /\ store = [c \in Tracked |-> [title |-> "orig", content |-> "source"]]
    /\ metadata = [c \in Tracked |-> "orig"]
    /\ saveErrors = 0
    /\ glossary = <<>>
    /\ novelStatus \in NovelStatuses
    /\ settings = 0
    /\ getting = [c \in Callers |-> "idle"]
    /\ reactions = [t \in ValidTypes |-> <<>>]
    /\ reacting = [u \in Users |-> NoReaction]
    /\ views = 0
    /\ viewedBy = [k \in ViewKeys |-> 0]
    /\ viewing = [r \in Requests |-> NoView]

\* The work is published when the job is created.
JobInit ==
    /\ Init
    /\ novelStatus = "ongoing"

\* ------------------------------------------------------------ supervisor
\* novel.chapters.map(c => c.number): the index, in stored order.
NovelChapterNumbers == [i \in 1..NumChapters |-> i]

\* Chapter selectors of a start request.
SelAll == [type |-> "all", list |-> <<>>, from |-> 0]
SelList(l) == [type |-> "list", list |-> l, from |-> 0]
SelFrom(n) == [type |-> "resumeFrom", list |-> <<>>, from |-> n]

\* The selectors a request body may carry.  Both start handlers take the
\* same body; the title-generation handler reads `chapters` only.
Selectors ==
    {SelAll} \cup {SelList(l) : l \in ChapterLists} \cup {SelFrom(n) : n \in Chapters}

TitleGenSelectors == Selectors
TranslationSelectors == Selectors

\* The target queue the translator start request builds from its selector.
TargetOf(sel) ==
    CASE sel.type = "resumeFrom" ->
           SelectSeq(NovelChapterNumbers, LAMBDA c : c >= sel.from)
      [] sel.type = "all" -> NovelChapterNumbers
      [] OTHER -> sel.list

\* The target queue the title-generation start request builds: `chapters`
\* is 'all' or an array, and the queue stays empty otherwise.
TitleGenTargetOf(sel) ==
    CASE sel.type = "all" -> NovelChapterNumbers
      [] sel.type = "list" -> sel.list
      [] OTHER -> <<>>

\* The next worker run to launch.
NextRun == CHOOSE w \in Workers : pc[w] = "idle" /\ \A v \in 1..(w - 1) : pc[v] # "idle"

Launch(w) == pc' = [pc EXCEPT ![w] = "entry"]

\* POST /api/title-gen/start without jobId, for a work that is found.
StartTitleGen(sel) ==
    /\ jobState = "none"
    /\ kind' = "titlegen"
    /\ jobState' = "live"
    /\ job' = NewJob(TitleGenTargetOf(sel), 0, "info")
    /\ Launch(1)
    /\ UNCHANGED <<firestore, site, loc, quotaErrors, hist, stores, saveErrors>>

\* POST /api/translator/start without jobId, for a work that is found:
\* apiKeys is the request's credential override, savedKeys the global
\* translatorApiKeys.
StartTranslation(sel, apiKeys, savedKeys) ==
    /\ jobState = "none"
    /\ LET effectiveKeys == IF apiKeys > 0 THEN apiKeys ELSE savedKeys IN
       /\ effectiveKeys # 0
       /\ job' = NewJob(TargetOf(sel), effectiveKeys, "info")
    /\ kind' = "translation"
    /\ jobState' = "live"
    /\ Launch(1)
    /\ UNCHANGED <<firestore, site, loc, quotaErrors, hist, stores, saveErrors>>

\* POST .../start with jobId: resume.
ResumeRequest ==
    /\ Live
    /\ \E w \in Workers : pc[w] = "idle"
    /\ job' = [PushLog(job, "info") EXCEPT !.status = "active"]
    /\ Launch(NextRun)
    /\ UNCHANGED <<firestore, site, kind, jobState, loc, quotaErrors, stores, saveErrors>>

Resume ==
    /\ ResumeRequest
    /\ UNCHANGED hist

\* Positions at which a run has a chapter in flight: after the checkpoint
\* read of the chapter and before its commit.
InFlight == {"gen", "extract"}

\* Variant of the pause: the queue of the record is emptied.
PauseRequestClearsQueue ==
    /\ Live
    /\ job' = [PushLog(job, "warning") EXCEPT !.status = "paused",
                                              !.targetChapters = <<>>]
    /\ UNCHANGED <<firestore, site, kind, jobState, pc, loc, quotaErrors, stores, saveErrors>>

\* POST .../jobs/:id/pause.
PauseRequest ==
    /\ Live
    /\ job' = [PushLog(job, "warning") EXCEPT !.status = "paused"]
    /\ UNCHANGED <<firestore, site, kind, jobState, pc, loc, quotaErrors, stores, saveErrors>>

Pause ==
    /\ PauseRequest
    /\ UNCHANGED hist

\* DELETE .../jobs/:id.
Delete ==
    /\ Live
    /\ jobState' = "deleted"
    /\ job' = NoJob
    /\ UNCHANGED <<firestore, site, kind, pc, loc, quotaErrors, hist, stores, saveErrors>>


\* ---------------------------------------------------------------- worker
\* What no worker step changes.
fixed == <<firestore, site, kind, jobState, hist>>

\* What a worker step changes only in the rate-limit branch and in the
\* commit of a chapter.
world == <<fixed, quotaErrors, stores, saveErrors>>

Goto(w, p) == pc' = [pc EXCEPT ![w] = p]

\* await delay(1500) of processTitleGenJob, await delay(2000) of
\* processTranslationJob: the last statement of the loop body.
ChapterDelay(w) == loc' = [loc EXCEPT ![w].delay = "chapter"]

\* The run returns: its local variables are gone.
Return(w) ==
    /\ pc' = [pc EXCEPT ![w] = "done"]
    /\ loc' = [loc EXCEPT ![w] = NoLoc]

\* A write of the worker to the Job Record (findByIdAndUpdate, job.save()):
\* it changes nothing when the record is gone.
JobUpdate(j) == job' = IF Live THEN j ELSE job

\* Status a findById of the Job Record returns.
ReadStatus == IF Live THEN job.status ELSE "missing"

\* Settings values a worker may read: a credential list is empty or set.
KeyCounts == {0, NumKeys}

\* The credential list a run resolves: title-generation keys, else the
\* translator keys; for translation the job's own keys, else the translator
\* keys.
ResolvedKeys(w, titleGenApiKeys, translatorApiKeys) ==
    IF kind = "titlegen"
    THEN IF titleGenApiKeys > 0 THEN titleGenApiKeys ELSE translatorApiKeys
    ELSE IF loc[w].apiKeys > 0 THEN loc[w].apiKeys ELSE translatorApiKeys

\* Entry read: the record is missing or not active, the run returns.
EntryInactive(w) ==
    /\ pc[w] = "entry"
    /\ ReadStatus # "active"
    /\ Return(w)
    /\ UNCHANGED <<world, job>>

\* Entry read of an active record: `job` is this snapshot from now on.
EntryActive(w) ==
    /\ pc[w] = "entry"
    /\ ReadStatus = "active"
    /\ loc' = [loc EXCEPT ![w].chaptersToProcess = job.targetChapters,
                          ![w].apiKeys = job.apiKeys]
    /\ Goto(w, "precheck")
    /\ UNCHANGED <<world, job>>

\* Variant of the preconditions: the credential list is not checked.
ConfiguredWithoutKeys(w, novel, titleGenApiKeys, translatorApiKeys) ==
    /\ firestore
    /\ novel

\* The configuration preconditions of a run, on what Novel.findById and
\* getGlobalSettings return.
Configured(w, novel, titleGenApiKeys, translatorApiKeys) ==
    /\ firestore
    /\ novel
    /\ ResolvedKeys(w, titleGenApiKeys, translatorApiKeys) > 0

\* A configuration precondition fails: job.status = 'failed', one error
\* log, job.save(), return.
PrecheckFail(w, novel, titleGenApiKeys, translatorApiKeys) ==
    /\ pc[w] = "precheck"
    /\ ~Configured(w, novel, titleGenApiKeys, translatorApiKeys)
    /\ JobUpdate([PushLog(job, "error") EXCEPT !.status = "failed"])
    /\ Return(w)
    /\ UNCHANGED world

\* Variant: the key index is shared, a run goes on from the first run's.
PrecheckOkSharedKeyIndex(w, novel, titleGenApiKeys, translatorApiKeys) ==
    /\ pc[w] = "precheck"
    /\ Configured(w, novel, titleGenApiKeys, translatorApiKeys)
    /\ loc' = [loc EXCEPT
                 ![w].keys = ResolvedKeys(w, titleGenApiKeys, translatorApiKeys),
                 ![w].keyIndex = loc[1].keyIndex,
                 ![w].chaptersToProcess = SortAsc(loc[w].chaptersToProcess),
                 ![w].idx = 0]
    /\ Goto(w, "loop")
    /\ UNCHANGED <<world, job>>

\* The preconditions hold: keyIndex = 0, the queue snapshot is sorted.
PrecheckOk(w, novel, titleGenApiKeys, translatorApiKeys) ==
    /\ pc[w] = "precheck"
    /\ Configured(w, novel, titleGenApiKeys, translatorApiKeys)
    /\ loc' = [loc EXCEPT
                 ![w].keys = ResolvedKeys(w, titleGenApiKeys, translatorApiKeys),
                 ![w].keyIndex = 0,
                 ![w].chaptersToProcess = SortAsc(loc[w].chaptersToProcess),
                 ![w].idx = 0]
    /\ Goto(w, "loop")
    /\ UNCHANGED <<world, job>>

\* The for..of iterator is exhausted.
LoopEnd(w) ==
    /\ pc[w] = "loop"
    /\ loc[w].idx >= Len(loc[w].chaptersToProcess)
    /\ Goto(w, "final")
    /\ UNCHANGED <<world, job, loc>>

\* The iterator yields the next chapter; the values the loop head sets.
Take(w) == [loc[w] EXCEPT !.idx = @ + 1,
                          !.delay = "none",
                          !.chapterNum = loc[w].chaptersToProcess[loc[w].idx + 1]]

\* The chapter has passed the checkpoint and freshNovel is read.
Fresh(w) == [Take(w) EXCEPT !.novelStatus = novelStatus]

HasNext(w) ==
    /\ pc[w] = "loop"
    /\ loc[w].idx < Len(loc[w].chaptersToProcess)

\* Variants of the checkpoint: it stops only a paused job; it never stops
\* a job that is paused.
CheckpointPassesUnlessPaused == ReadStatus # "paused"

CheckpointIgnoresPause == ReadStatus \in {"active", "paused"}

\* Variant of the checkpoint: a missing record does not stop the run.
CheckpointPassesIfMissing == ReadStatus \in {"active", "missing"}

\* The checkpoint lets the chapter through.
CheckpointPasses == ReadStatus = "active"

\* Checkpoint: freshJob is missing or not active, break.
CheckpointStop(w) ==
    /\ HasNext(w)
    /\ ~CheckpointPasses
    /\ loc' = [loc EXCEPT ![w] = Take(w)]
    /\ JobUpdate(IF job.status = "paused" THEN PushLog(job, "warning") ELSE job)
    /\ Goto(w, "final")
    /\ UNCHANGED world

\* Checkpoint passed, freshNovel is null: freshNovel.chapters throws.
NovelGone(w) ==
    /\ HasNext(w)
    /\ CheckpointPasses
    /\ loc' = [loc EXCEPT ![w] = Take(w)]
    /\ Goto(w, "crash")
    /\ UNCHANGED <<world, job>>

\* Variant of the top-level catch: it fails only a job that is active.
CrashIfActive(w) ==
    /\ pc[w] = "crash"
    /\ JobUpdate(IF job.status = "active" THEN [job EXCEPT !.status = "failed"] ELSE job)
    /\ Return(w)
    /\ UNCHANGED world

\* The top-level catch: findByIdAndUpdate(jobId, { status: 'failed' }).
Crash(w) ==
    /\ pc[w] = "crash"
    /\ JobUpdate([job EXCEPT !.status = "failed"])
    /\ Return(w)
    /\ UNCHANGED world

\* Checkpoint passed, translation: the index of the work, read afresh,
\* does not hold the chapter (chapterIndex === -1): warning log, continue.
NotInIndex(w) ==
    /\ HasNext(w)
    /\ CheckpointPasses
    /\ kind = "translation"
    /\ loc' = [loc EXCEPT ![w] = Fresh(w)]
    /\ JobUpdate(PushLog(job, "warning"))
    /\ Goto(w, "loop")
    /\ UNCHANGED world

\* Source texts the content store may return: no document or an empty
\* content, a text of fewer than 50 characters, a longer text.
Sources == {"none", "short", "long"}

\* The chapter is skipped for its source text.
TooShort(src) ==
    IF kind = "titlegen" THEN src \in {"none", "short"} ELSE src = "none"

\* Variant of the skip: the skipped chapter is removed from the queue.
SkipChapterRemoves(w, src) ==
    /\ HasNext(w)
    /\ CheckpointPasses
    /\ TooShort(src)
    /\ loc' = [loc EXCEPT ![w] = Fresh(w)]
    /\ JobUpdate(PushLog([job EXCEPT !.targetChapters = Pull(@, Take(w).chapterNum)],
                         "warning"))
    /\ Goto(w, "loop")
    /\ UNCHANGED world

\* Checkpoint passed, the source text is missing or too short: warning
\* log, continue.
SkipChapter(w, src) ==
    /\ HasNext(w)
    /\ CheckpointPasses
    /\ TooShort(src)
    /\ loc' = [loc EXCEPT ![w] = Fresh(w)]
    /\ JobUpdate(PushLog(job, "warning"))
    /\ Goto(w, "loop")
    /\ UNCHANGED world

\* getModel(): currentKey = keys[keyIndex % keys.length].
CurrentKey(l) == l.keyIndex % l.keys

\* Checkpoint passed, the source text is there: log, getModel(),
\* generateContent is called.
CallGeneration(w, src) ==
    /\ HasNext(w)
    /\ CheckpointPasses
    /\ ~TooShort(src)
    /\ loc' = [loc EXCEPT ![w] = Fresh(w)]
    /\ JobUpdate(PushLog(job, "info"))
    /\ Goto(w, "gen")
    /\ UNCHANGED world

\* Variants of the rate-limit branch: the chapter is not re-inserted; the
\* chapter is re-inserted in the persisted queue as well.
GenRateLimitNoRetry(w) ==
    /\ pc[w] = "gen"
    /\ quotaErrors < MaxQuotaErrors
    /\ quotaErrors' = quotaErrors + 1
    /\ loc' = [loc EXCEPT ![w].keyIndex = @ + 1, ![w].delay = "retry"]
    /\ JobUpdate(PushLog(job, "warning"))
    /\ Goto(w, "loop")
    /\ UNCHANGED <<fixed, stores, saveErrors>>

GenRateLimitRequeues(w) ==
    /\ pc[w] = "gen"
    /\ quotaErrors < MaxQuotaErrors
    /\ quotaErrors' = quotaErrors + 1
    /\ loc' = [loc EXCEPT
                 ![w].keyIndex = @ + 1,
                 ![w].delay = "retry",
                 ![w].chaptersToProcess = <<loc[w].chapterNum>> \o @]
    /\ JobUpdate(PushLog([job EXCEPT !.targetChapters = <<loc[w].chapterNum>> \o @],
                         "warning"))
    /\ Goto(w, "loop")
    /\ UNCHANGED <<fixed, stores, saveErrors>>

\* Variant of the rate-limit branch: the call is made again with the next
\* key at once, without going back to the head of the loop.
GenRateLimitInPlace(w) ==
    /\ pc[w] = "gen"
    /\ quotaErrors < MaxQuotaErrors
    /\ quotaErrors' = quotaErrors + 1
    /\ loc' = [loc EXCEPT ![w].keyIndex = @ + 1, ![w].delay = "retry"]
    /\ JobUpdate(PushLog(job, "warning"))
    /\ Goto(w, "gen")
    /\ UNCHANGED <<fixed, stores, saveErrors>>

\* The first generation call fails with a message holding '429' or 'quota':
\* keyIndex++, warning log, delay, chaptersToProcess.unshift(chapterNum),
\* continue.
GenRateLimit(w) ==
    /\ pc[w] = "gen"
    /\ quotaErrors < MaxQuotaErrors
    /\ quotaErrors' = quotaErrors + 1
    /\ loc' = [loc EXCEPT
                 ![w].keyIndex = @ + 1,
                 ![w].delay = "retry",
                 ![w].chaptersToProcess = <<loc[w].chapterNum>> \o @]
    /\ JobUpdate(PushLog(job, "warning"))
    /\ Goto(w, "loop")
    /\ UNCHANGED <<fixed, stores, saveErrors>>

\* Variant of the generation catch: another error fails the job.
GenErrorFailsJob(w) ==
    /\ pc[w] = "gen"
    /\ JobUpdate(PushLog([job EXCEPT !.status = "failed"], "error"))
    /\ Goto(w, "loop")
    /\ UNCHANGED <<world, loc>>

\* The first generation call fails with another error: error log, continue.
GenError(w) ==
    /\ pc[w] = "gen"
    /\ JobUpdate(PushLog(job, "error"))
    /\ Goto(w, "loop")
    /\ UNCHANGED <<world, loc>>

\* Variant of the progress update: the chapter is pulled and not counted.
ProgressWithoutCount(j, c) ==
    [j EXCEPT !.currentChapter = c,
              !.targetChapters = Pull(@, c)]

\* The progress update of a committed chapter: $inc, $set, $pull.
Progress(j, c) ==
    [j EXCEPT !.processedCount = @ + 1,
              !.currentChapter = c,
              !.targetChapters = Pull(@, c)]

\* The writes of a commit in their order, and "none": the write of a
\* commit that throws.
TitleFailures == {"store", "novel", "job"}

\* A write of a commit throws.
SaveError ==
    /\ saveErrors < MaxSaveErrors
    /\ saveErrors' = saveErrors + 1

\* The two title writes of a title-generation commit, up to the one that
\* throws: set({ title }, { merge: true }), then chapters.$.title.
TitleWrites(c, fails) ==
    /\ store' = IF fails = "store" THEN store
                ELSE [store EXCEPT ![c].title = "gen"]
    /\ metadata' = IF fails \in {"store", "novel"} THEN metadata
                   ELSE [metadata EXCEPT ![c] = "gen"]

\* Title-generation: a title is generated, written to the content store
\* and the work, the Job Record is updated, success log, delay.
TitleCommit(w) ==
    /\ pc[w] = "gen"
    /\ kind = "titlegen"
    /\ TitleWrites(loc[w].chapterNum, "none")
    /\ JobUpdate(PushLog(Progress(job, loc[w].chapterNum), "success"))
    /\ Goto(w, "loop")
    /\ ChapterDelay(w)
    /\ UNCHANGED <<fixed, quotaErrors, saveErrors, glossary, novelStatus>>

\* Variant of the failed commit: the chapter is removed from the queue.
TitleSaveErrorRemoves(w, fails) ==
    /\ SaveError
    /\ pc[w] = "gen"
    /\ kind = "titlegen"
    /\ TitleWrites(loc[w].chapterNum, fails)
    /\ JobUpdate(PushLog([job EXCEPT !.targetChapters = Pull(@, loc[w].chapterNum)],
                         "error"))
    /\ Goto(w, "loop")
    /\ ChapterDelay(w)
    /\ UNCHANGED <<fixed, quotaErrors, glossary, novelStatus>>

\* Title-generation: a title is generated and a write of the commit throws:
\* the writes before it stay, error log, delay.
TitleSaveError(w, fails) ==
    /\ SaveError
    /\ pc[w] = "gen"
    /\ kind = "titlegen"
    /\ TitleWrites(loc[w].chapterNum, fails)
    /\ JobUpdate(PushLog(job, "error"))
    /\ Goto(w, "loop")
    /\ ChapterDelay(w)
    /\ UNCHANGED <<fixed, quotaErrors, glossary, novelStatus>>

\* Title-generation: the cleaned title is empty, nothing is written, delay.
TitleEmpty(w) ==
    /\ pc[w] = "gen"
    /\ kind = "titlegen"
    /\ ChapterDelay(w)
    /\ Goto(w, "loop")
    /\ UNCHANGED <<world, job>>

\* Variant: the extraction call is made without advancing the key index.
TranslationTextKeepsKey(w) ==
    /\ pc[w] = "gen"
    /\ kind = "translation"
    /\ JobUpdate(PushLog(job, "info"))
    /\ Goto(w, "extract")
    /\ UNCHANGED <<world, loc>>

\* Translation: the translated text is there; title derivation, log,
\* keyIndex++ and the extraction call.  The text is read again in the
\* commit only: whether it is empty is an input of the commit steps.
TranslationText(w) ==
    /\ pc[w] = "gen"
    /\ kind = "translation"
    /\ loc' = [loc EXCEPT ![w].keyIndex = @ + 1]
    /\ JobUpdate(PushLog(job, "info"))
    /\ Goto(w, "extract")
    /\ UNCHANGED world

\* The chapters whose translated text opens with a chapter heading that
\* holds a title after its colon.
Headed == {c \in Chapters : c % 2 = 1}

\* extractedTitle: what follows the first colon of the first paragraph
\* when that paragraph names a chapter, else the default title built from
\* the chapter number.
ExtractedTitle(c) == IF c \in Headed THEN "derived" ELSE "default"

\* translatedText as the content store keeps it.
Translated(nonEmpty) == IF nonEmpty THEN "translated" ELSE "empty"

\* -------------------------------------------------------------- glossary
\* The works a glossary document may belong to; the job's work is TheWork.
Works == {"w1", "w2"}
TheWork == "w1"

\* Source terms, and the absent value of a field of a term object or of a
\* request body (undefined, null or the empty string).
Terms == {"a", "b"}
Missing == "missing"

\* The categories of the Glossary schema's enum.
Categories == {"characters", "locations", "items", "ranks", "other"}

\* A category of an extraction answer that is not a string (a number, an
\* object): it has no toLowerCase.
NonString == "nonString"

\* Category values an extraction answer or a request body may carry.
RawCategories ==
    {"character", "location", "item", "rank", "concept",
     "characters", "locations", "items", "ranks", "other",
     "Character", "ITEMS", "Concept", "skill", Missing}

\* String.prototype.toLowerCase on the values above.
ToLowerCase(str) ==
    CASE str = "Character" -> "character"
      [] str = "ITEMS" -> "items"
      [] str = "Concept" -> "concept"
      [] OTHER -> str

\* Variant of the category mapping: the names are compared as they are
\* written.
NormalizeCategoryAsWritten(raw) ==
    LET lower == IF raw = Missing THEN "other" ELSE raw
        category == CASE lower = "character" -> "characters"
                      [] lower = "location" -> "locations"
                      [] lower = "item" -> "items"
                      [] lower = "rank" -> "ranks"
                      [] lower = "concept" -> "other"
                      [] OTHER -> lower
    IN  IF category \in {"characters", "locations", "items", "ranks"}
        THEN category
        ELSE "other"

\* The category an automatic upsert stores for termObj.category.
NormalizeCategory(raw) ==
    LET lower == IF raw = Missing THEN "other" ELSE ToLowerCase(raw)
        category == CASE lower = "character" -> "characters"
                      [] lower = "location" -> "locations"
                      [] lower = "item" -> "items"
                      [] lower = "rank" -> "ranks"
                      [] lower = "concept" -> "other"
                      [] OTHER -> lower
    IN  IF category \in {"characters", "locations", "items", "ranks"}
        THEN category
        ELSE "other"

\* finalCategory of the manual create/update: the value itself when it is
\* one of the enum's, compared as it is, else 'other'.
FinalCategory(raw) == IF raw \in Categories THEN raw ELSE "other"

\* description || ''
OrEmpty(v) == IF v = Missing THEN "" ELSE v

\* A Glossary Term document: the key (work id, source term) and the
\* translation, category, description and autoGenerated flag kept under it.
TermDoc(novelId, term, translation, category, description, autoGenerated) ==
    [novelId       |-> novelId,
     term          |-> term,
     translation   |-> translation,
     category      |-> category,
     description   |-> description,
     autoGenerated |-> autoGenerated]

\* The documents of g a filter { novelId, term } matches, and the first.
Matching(g, novelId, term) ==
    {i \in DOMAIN g : g[i].novelId = novelId /\ g[i].term = term}

FirstOf(S) == CHOOSE i \in S : \A j \in S : i <= j

\* Variants of the automatic upsert: the document is inserted whether or
\* not the filter matches one; a term object is not passed over.
AutoInsert(g, novelId, termObj) ==
    IF termObj.name = Missing \/ termObj.translation = Missing THEN g
    ELSE Append(g, TermDoc(novelId, termObj.name, termObj.translation,
                           "other", "", TRUE))

AutoUpsertUnguarded(g, novelId, termObj) ==
    Append(SelectSeq(g, LAMBDA d : ~(d.novelId = novelId /\ d.term = termObj.name)),
           TermDoc(novelId, termObj.name, termObj.translation, "other", "", TRUE))

\* Variant of the automatic upsert: autoGenerated is set with the other
\* fields, on a document that exists as well.
AutoUpsertSetsFlag(g, novelId, termObj) ==
    IF termObj.name = Missing \/ termObj.translation = Missing THEN g
    ELSE LET found == Matching(g, novelId, termObj.name)
             category == NormalizeCategory(termObj.category)
             description == OrEmpty(termObj.description)
         IN  IF found = {}
             THEN Append(g, TermDoc(novelId, termObj.name, termObj.translation,
                                    category, description, TRUE))
             ELSE [g EXCEPT ![FirstOf(found)] =
                     [@ EXCEPT !.translation = termObj.translation,
                               !.category = category,
                               !.description = description,
                               !.autoGenerated = TRUE]]

\* Glossary.updateOne(filter, { $set, $setOnInsert }, { upsert: true }) for
\* one term object of the extraction answer; an object without a name or
\* without a translation is passed over.
AutoUpsert(g, novelId, termObj) ==
    IF termObj.name = Missing \/ termObj.translation = Missing THEN g
    ELSE LET found == Matching(g, novelId, termObj.name)
             category == NormalizeCategory(termObj.category)
             description == OrEmpty(termObj.description)
         IN  IF found = {}
             THEN Append(g, TermDoc(novelId, termObj.name, termObj.translation,
                                    category, description, TRUE))
             ELSE [g EXCEPT ![FirstOf(found)] =
                     [@ EXCEPT !.translation = termObj.translation,
                               !.category = category,
                               !.description = description]]

\* termObj.category.toLowerCase() throws for a term object that is not
\* passed over.
CategoryThrows(termObj) ==
    /\ termObj.name # Missing
    /\ termObj.translation # Missing
    /\ termObj.category = NonString

\* The upsert loop over parsedTerms, up to the term object on which it
\* throws.
RECURSIVE UpsertTerms(_, _, _)
UpsertTerms(g, novelId, parsedTerms) ==
    IF parsedTerms = <<>> THEN g
    ELSE IF CategoryThrows(Head(parsedTerms)) THEN g
    ELSE UpsertTerms(AutoUpsert(g, novelId, Head(parsedTerms)), novelId,
                     Tail(parsedTerms))

\* Variant of the manual create/update: the document is inserted whether
\* or not the filter matches one.
ManualInsert(g, body) ==
    Append(g, TermDoc(body.novelId, body.term, body.translation,
                      FinalCategory(body.category), OrEmpty(body.description),
                      FALSE))

\* Glossary.findOneAndUpdate(filter, { translation, category, description,
\* autoGenerated: false }, { new: true, upsert: true }) of the manual
\* create/update; a translation that is not sent is not set.
ManualUpsert(g, body) ==
    LET found == Matching(g, body.novelId, body.term)
        category == FinalCategory(body.category)
        description == OrEmpty(body.description)
    IN  IF found = {}
        THEN Append(g, TermDoc(body.novelId, body.term, body.translation,
                               category, description, FALSE))
        ELSE [g EXCEPT ![FirstOf(found)] =
                [@ EXCEPT !.translation = IF body.translation = Missing
                                          THEN @ ELSE body.translation,
                          !.category = category,
                          !.description = description,
                          !.autoGenerated = FALSE]]

\* What the extraction call may answer: text that is not JSON; a JSON
\* array of strings; a JSON array holding null; a JSON object without a
\* newTerms or terms array; the term objects as an array, under newTerms
\* or under terms.
Answers == {"invalid", "strings", "nulls", "object", "array", "newTerms", "terms"}

\* The term objects the answer for chapter c holds when it holds some.
ExtractionTerms(c) ==
    << [name        |-> "a",
        translation |-> IF c \in Headed THEN "x" ELSE "y",
        category    |-> "character",
        description |-> Missing] >>

\* A string of the array ["not", "an", "object"]: it has none of the
\* properties of a term object.
NoTermObject ==
    [name |-> Missing, translation |-> Missing, category |-> Missing,
     description |-> Missing]

\* parsedTerms: JSON.parse in its try, then the array itself, its newTerms
\* or its terms.
ParsedTerms(answer, c) ==
    CASE answer \in {"array", "newTerms", "terms"} -> ExtractionTerms(c)
      [] answer = "strings" -> <<NoTermObject, NoTermObject, NoTermObject>>
      [] OTHER -> <<>>

\* The upsert loop throws on the answer: termObj.name of null.
LoopThrows(answer) == answer = "nulls"

\* The glossary is written by the upsert loop alone and read only to build
\* the prompt of the translation call, so no step on the Job Record
\* depends on it: in the specifications of the job the extraction call
\* answers with text that is not JSON, in the specification of the
\* extraction (Extraction) with any of the answers.
JobAnswer == "invalid"

\* Where the extraction and main commit of a translated chapter throw:
\* in the extraction call or in the upsert loop before it has written; in
\* the content-store write; in the update of the work; in the update of
\* the Job Record.
CommitFailures == {"extract", "store", "novel", "job"}

\* An answer on which the upsert loop throws fails the commit there.
FailsAt(answer, fails) == LoopThrows(answer) => fails = "extract"

\* The glossary after the main commit of chapter c threw at `fails`
\* ("none": it did not throw).
GlossaryAfterMain(c, answer, fails) ==
    IF fails = "extract" THEN glossary
    ELSE UpsertTerms(glossary, TheWork, ParsedTerms(answer, c))

\* The content store and the index of the work after the main commit of
\* run w threw at `fails` ("none": it did not throw).
StoreAfterMain(c, nonEmpty, fails) ==
    IF fails \in {"extract", "store"} THEN store
    ELSE [store EXCEPT ![c] = [title |-> ExtractedTitle(c),
                               content |-> Translated(nonEmpty)]]

MetadataAfterMain(c, fails) ==
    IF fails \in {"extract", "store", "novel"} THEN metadata
    ELSE [metadata EXCEPT ![c] = ExtractedTitle(c)]

\* Variant of the status update: the work is set to ongoing whatever
\* status the iteration read.
StatusUpdateAlways(w) == "ongoing"

\* The status the update of the work leaves: updates.$set.status is set
\* when freshNovel.status was private.
StatusUpdate(w) ==
    IF loc[w].novelStatus = "private" THEN "ongoing" ELSE novelStatus

\* The status of the work after the main commit of run w threw at `fails`.
StatusAfterMain(w, fails) ==
    IF fails \in {"extract", "store", "novel"} THEN novelStatus
    ELSE StatusUpdate(w)

\* Translation: the extraction call returns, its terms are upserted, the
\* chapter is written to the content store and the work, the Job Record
\* is updated, success log, delay.
ExtractCommit(w, nonEmpty, answer) ==
    /\ pc[w] = "extract"
    /\ ~LoopThrows(answer)
    /\ glossary' = GlossaryAfterMain(loc[w].chapterNum, answer, "none")
    /\ store' = StoreAfterMain(loc[w].chapterNum, nonEmpty, "none")
    /\ metadata' = MetadataAfterMain(loc[w].chapterNum, "none")
    /\ novelStatus' = StatusAfterMain(w, "none")
    /\ JobUpdate(PushLog(Progress(job, loc[w].chapterNum), "success"))
    /\ Goto(w, "loop")
    /\ ChapterDelay(w)
    /\ UNCHANGED <<fixed, quotaErrors, saveErrors>>

\* Variant of the fallback save: the chapter stays in targetChapters.
FallbackSaveKeepsChapter(w, fails, answer) ==
    /\ SaveError
    /\ pc[w] = "extract"
    /\ FailsAt(answer, fails)
    /\ LET c == loc[w].chapterNum IN
       /\ glossary' = GlossaryAfterMain(c, answer, fails)
       /\ store' = [StoreAfterMain(c, TRUE, fails) EXCEPT ![c].content = "translated"]
       /\ metadata' = [metadata EXCEPT ![c] = ExtractedTitle(c)]
       /\ novelStatus' = StatusUpdate(w)
       /\ JobUpdate(PushLog(job, "warning"))
    /\ Goto(w, "loop")
    /\ ChapterDelay(w)
    /\ UNCHANGED <<fixed, quotaErrors>>

\* Translation: the extraction call or a write of the commit throws and
\* the text is not empty: fallback save, set({ content }, { merge: true }),
\* chapters.$.title = extractedTitle, $pull without $inc, warning log.
FallbackSave(w, fails, answer) ==
    /\ SaveError
    /\ pc[w] = "extract"
    /\ FailsAt(answer, fails)
    /\ LET c == loc[w].chapterNum IN
       /\ glossary' = GlossaryAfterMain(c, answer, fails)
       /\ store' = [StoreAfterMain(c, TRUE, fails) EXCEPT ![c].content = "translated"]
       /\ metadata' = [metadata EXCEPT ![c] = ExtractedTitle(c)]
       /\ novelStatus' = StatusUpdate(w)
       /\ JobUpdate(PushLog([job EXCEPT !.targetChapters = Pull(@, c)], "warning"))
    /\ Goto(w, "loop")
    /\ ChapterDelay(w)
    /\ UNCHANGED <<fixed, quotaErrors>>

\* Translation: the extraction call or a write of the commit throws, and
\* the text is empty (no fallback) or a write of the fallback save throws
\* too (`again`: its content-store write, its update of the work or its
\* update of the Job Record): the writes before it stay, error log.
FallbackFail(w, nonEmpty, fails, again, answer) ==
    /\ SaveError
    /\ pc[w] = "extract"
    /\ FailsAt(answer, fails)
    /\ LET c == loc[w].chapterNum
           main == StoreAfterMain(c, nonEmpty, fails) IN
       /\ glossary' = GlossaryAfterMain(c, answer, fails)
       /\ store' = IF nonEmpty /\ again # "store"
                   THEN [main EXCEPT ![c].content = "translated"]
                   ELSE main
       /\ metadata' = IF nonEmpty /\ again = "job"
                      THEN [metadata EXCEPT ![c] = ExtractedTitle(c)]
                      ELSE MetadataAfterMain(c, fails)
       /\ novelStatus' = IF nonEmpty /\ again = "job"
                         THEN StatusUpdate(w)
                         ELSE StatusAfterMain(w, fails)
    /\ JobUpdate(PushLog(job, "error"))
    /\ Goto(w, "loop")
    /\ ChapterDelay(w)
    /\ UNCHANGED <<fixed, quotaErrors>>

\* Variant of the final check: the status alone, for both job types.
FinalConditionActiveOnly == job.status = "active"

\* The condition of the final check on finalJob.
FinalCondition ==
    /\ job.status = "active"
    /\ kind = "titlegen" => Len(job.targetChapters) = 0

\* Final check: finalJob is null, finalJob.status throws and the catch's
\* update finds no record.
FinalCrash(w) ==
    /\ pc[w] = "final"
    /\ ~Live
    /\ Return(w)
    /\ UNCHANGED <<world, job>>

\* Final check: the condition fails, the run ends.
FinalSkip(w) ==
    /\ pc[w] = "final"
    /\ Live
    /\ ~FinalCondition
    /\ Return(w)
    /\ UNCHANGED <<world, job>>

\* Final check: the condition holds.
FinalRead(w) ==
    /\ pc[w] = "final"
    /\ Live
    /\ FinalCondition
    /\ Goto(w, "finalWrite")
    /\ UNCHANGED <<world, job, loc>>

\* findByIdAndUpdate(jobId, { status: 'completed' }) and the final log.
FinalWrite(w) ==
    /\ pc[w] = "finalWrite"
    /\ JobUpdate([PushLog(job, "success") EXCEPT !.status = "completed"])
    /\ Return(w)
    /\ UNCHANGED world

\* ---------------------------------------------------------- specification
WorkerStep(w) ==
    \/ EntryInactive(w)
    \/ EntryActive(w)
    \/ \E novel \in BOOLEAN, tg, tr \in KeyCounts : PrecheckFail(w, novel, tg, tr)
    \/ \E novel \in BOOLEAN, tg, tr \in KeyCounts : PrecheckOk(w, novel, tg, tr)
    \/ LoopEnd(w)
    \/ CheckpointStop(w)
    \/ NovelGone(w)
    \/ Crash(w)
    \/ NotInIndex(w)
    \/ \E src \in Sources : SkipChapter(w, src)
    \/ \E src \in Sources : CallGeneration(w, src)
    \/ GenRateLimit(w)
    \/ GenError(w)
    \/ TitleCommit(w)
    \/ \E fails \in TitleFailures : TitleSaveError(w, fails)
    \/ TitleEmpty(w)
    \/ TranslationText(w)
    \/ \E nonEmpty \in BOOLEAN : ExtractCommit(w, nonEmpty, JobAnswer)
    \/ \E fails \in CommitFailures : FallbackSave(w, fails, JobAnswer)
    \/ \E nonEmpty \in BOOLEAN, fails \in CommitFailures, again \in TitleFailures :
          FallbackFail(w, nonEmpty, fails, again, JobAnswer)
    \/ FinalCrash(w)
    \/ FinalSkip(w)
    \/ FinalRead(w)
    \/ FinalWrite(w)

Supervisor ==
    \/ \E sel \in TitleGenSelectors : StartTitleGen(sel)
    \/ \E sel \in TranslationSelectors, apiKeys, savedKeys \in KeyCounts :
          StartTranslation(sel, apiKeys, savedKeys)
    \/ Resume
    \/ Pause
    \/ Delete

Next ==
    \/ Supervisor
    \/ \E w \in Workers : WorkerStep(w)

Spec == JobInit /\ [][Next]_vars

\* ----------------------------------------------------- undisturbed runs
\* The scenarios of the pause and resume requests: every collaborator is
\* configured and answers, every write succeeds, the Job Record is not
\* deleted.  The requests keep their history.

\* The worker runs that are launched and have not returned.
Running == {w \in Workers : pc[w] \notin {"idle", "done"}}

\* POST .../jobs/:id/pause, with the history of the pause.
PauseTracked ==
    /\ PauseRequest
    /\ hist' = IF job.status = "paused" THEN hist
               ELSE IF \E w \in Workers : Running = {w} /\ pc[w] \in InFlight
               THEN LET w == CHOOSE v \in Workers : Running = {v} IN
                    [run |-> w, chapter |-> loc[w].chapterNum,
                     queue |-> job.targetChapters, resumed |-> FALSE]
               ELSE NoHist

\* POST .../start with jobId, with the history of the resume.
ResumeTracked ==
    /\ ResumeRequest
    /\ hist' = [NoHist EXCEPT !.resumed = (job.status = "paused")]

SmoothStep(w) ==
    \/ EntryInactive(w)
    \/ EntryActive(w)
    \/ PrecheckOk(w, TRUE, NumKeys, NumKeys)
    \/ LoopEnd(w)
    \/ CheckpointStop(w)
    \/ CallGeneration(w, "long")
    \/ TitleCommit(w)
    \/ TranslationText(w)
    \/ ExtractCommit(w, TRUE, JobAnswer)
    \/ FinalSkip(w)
    \/ FinalRead(w)
    \/ FinalWrite(w)

SmoothInit ==
    /\ JobInit
    /\ firestore

SmoothNext ==
    \/ \E sel \in TitleGenSelectors : StartTitleGen(sel)
    \/ \E sel \in TranslationSelectors, apiKeys, savedKeys \in KeyCounts :
          StartTranslation(sel, apiKeys, savedKeys)
    \/ ResumeTracked
    \/ PauseTracked
    \/ \E w \in Workers : SmoothStep(w)

Smooth == SmoothInit /\ [][SmoothNext]_vars

\* ------------------------------------------------- runs that skip chapters
\* The scenario of the skipped chapters: a job over the whole index of the
\* work, whose chapters have a source text or none; every call and write
\* succeeds.
SkippingNext ==
    \/ StartTitleGen(SelAll)
    \/ \E apiKeys, savedKeys \in KeyCounts : StartTranslation(SelAll, apiKeys, savedKeys)
    \/ ResumeTracked
    \/ PauseTracked
    \/ \E w \in Workers : SmoothStep(w)
    \/ \E w \in Workers : SkipChapter(w, "none")

Skipping == SmoothInit /\ [][SkippingNext]_vars

\* ------------------------------------------------------ one run at a time
\* The scenario of a title-generation job that one run processes at a time:
\* it is created from a chapter list without duplicates, and resumed only
\* when the run before has returned; every fault of the worker may happen.
DistinctLists ==
    {l \in ChapterLists : \A i, j \in DOMAIN l : l[i] = l[j] => i = j}

ResumeAfterReturn ==
    /\ Running = {}
    /\ Resume

OneRunStep(w) ==
    \/ EntryInactive(w)
    \/ EntryActive(w)
    \/ \E novel \in BOOLEAN, tg, tr \in KeyCounts : PrecheckFail(w, novel, tg, tr)
    \/ \E novel \in BOOLEAN, tg, tr \in KeyCounts : PrecheckOk(w, novel, tg, tr)
    \/ LoopEnd(w)
    \/ CheckpointStop(w)
    \/ NovelGone(w)
    \/ Crash(w)
    \/ \E src \in Sources : SkipChapter(w, src)
    \/ \E src \in Sources : CallGeneration(w, src)
    \/ GenRateLimit(w)
    \/ GenError(w)
    \/ TitleCommit(w)
    \/ \E fails \in TitleFailures : TitleSaveError(w, fails)
    \/ TitleEmpty(w)
    \/ FinalCrash(w)
    \/ FinalSkip(w)
    \/ FinalRead(w)
    \/ FinalWrite(w)

OneRunNext ==
    \/ StartTitleGen(SelAll)
    \/ \E l \in DistinctLists : StartTitleGen(SelList(l))
    \/ ResumeAfterReturn
    \/ Pause
    \/ Delete
    \/ \E w \in Workers : OneRunStep(w)

OneRun == JobInit /\ [][OneRunNext]_vars

\* ------------------------------------------------- runs on a private work
\* The scenario of the publishing side effect: a job over the whole index of
\* a work of any visibility status, started, paused and resumed; the calls
\* succeed and the commit of a chapter may throw.
PublishingStep(w) ==
    \/ SmoothStep(w)
    \/ \E fails \in TitleFailures : TitleSaveError(w, fails)
    \/ \E fails \in CommitFailures : FallbackSave(w, fails, JobAnswer)
    \/ \E nonEmpty \in BOOLEAN, fails \in CommitFailures, again \in TitleFailures :
          FallbackFail(w, nonEmpty, fails, again, JobAnswer)

PublishingInit ==
    /\ Init
    /\ firestore

PublishingNext ==
    \/ StartTitleGen(SelAll)
    \/ StartTranslation(SelAll, NumKeys, NumKeys)
    \/ ResumeTracked
    \/ PauseTracked
    \/ \E w \in Workers : PublishingStep(w)

Publishing == PublishingInit /\ [][PublishingNext]_vars

\* ------------------------------------------- runs on exhausted credentials
\* The scenario of the exhausted credential set: the undisturbed runs, whose
\* generation calls may be answered with a rate-limit error.  A run is a
\* chain of promises of one event loop: a step that can be taken is taken.
ExhaustedStep(w) ==
    \/ SmoothStep(w)
    \/ GenRateLimit(w)

ExhaustedNext ==
    \/ \E sel \in TitleGenSelectors : StartTitleGen(sel)
    \/ \E sel \in TranslationSelectors, apiKeys, savedKeys \in KeyCounts :
          StartTranslation(sel, apiKeys, savedKeys)
    \/ ResumeTracked
    \/ PauseTracked
    \/ \E w \in Workers : ExhaustedStep(w)

Exhausted ==
    /\ SmoothInit
    /\ [][ExhaustedNext]_vars
    /\ \A w \in Workers : WF_vars(ExhaustedStep(w))

\* ---------------------------------------------------------- global settings
\* What getGlobalSettings leaves as it is.
settingsFrame ==
    <<firestore, kind, jobState, job, pc, loc, quotaErrors, hist, stores,
      saveErrors, reactions, reacting, views, viewedBy, viewing>>

\* getGlobalSettings: Settings.findOne() finds a document, which is
\* returned (the first of the collection).
SettingsFound(c) ==
    /\ getting[c] # "missing"
    /\ settings > 0
    /\ getting' = [getting EXCEPT ![c] = "first"]
    /\ UNCHANGED <<settings, settingsFrame>>

\* getGlobalSettings: Settings.findOne() finds none.
SettingsMissing(c) ==
    /\ getting[c] # "missing"
    /\ settings = 0
    /\ getting' = [getting EXCEPT ![c] = "missing"]
    /\ UNCHANGED <<settings, settingsFrame>>

\* getGlobalSettings: new Settings({}), settings.save(); the new document
\* is returned.
SettingsCreate(c) ==
    /\ getting[c] = "missing"
    /\ settings' = settings + 1
    /\ getting' = [getting EXCEPT ![c] = "own"]
    /\ UNCHANGED settingsFrame

\* The caller is done with the settings it got.
SettingsDone(c) ==
    /\ getting[c] \in {"first", "own"}
    /\ getting' = [getting EXCEPT ![c] = "idle"]
    /\ UNCHANGED <<settings, settingsFrame>>

GlobalSettingsNext ==
    \E c \in Callers :
       \/ SettingsFound(c)
       \/ SettingsMissing(c)
       \/ SettingsCreate(c)
       \/ SettingsDone(c)

GlobalSettings == SmoothInit /\ [][GlobalSettingsNext]_vars

\* ---------------------------------------------------------------- reactions
\* What the reaction route leaves as it is.
reactionsFrame ==
    <<firestore, kind, jobState, job, pc, loc, quotaErrors, hist, stores,
      saveErrors, settings, getting, views, viewedBy, viewing>>

\* Types a reaction request may carry: the valid ones and another.
RequestTypes == ValidTypes \cup {"wow"}

\* list.includes(userId), and list.pull(userId) as save() sends it: $pull
\* removes every occurrence.
Includes(list, u) == \E i \in DOMAIN list : list[i] = u
PullUser(list, u) == SelectSeq(list, LAMBDA x : x # u)

\* POST /api/novels/:novelId/react with a type that is not valid: 400.
ReactInvalid(u, type) ==
    /\ reacting[u].pc = "idle"
    /\ type \notin ValidTypes
    /\ UNCHANGED vars

\* The route reads the work: Novel.findById; the lists that hold the user
\* are those of the document read.
ReactRead(u, type) ==
    /\ reacting[u].pc = "idle"
    /\ type \in ValidTypes
    /\ reacting' = [reacting EXCEPT ![u] =
                      [pc |-> "read", type |-> type,
                       had |-> {t \in ValidTypes : Includes(reactions[t], u)}]]
    /\ UNCHANGED <<reactions, reactionsFrame>>

\* Variant of the save: the user is added without being pulled from the
\* other lists.
ReactSaveKeepsOthers(u) ==
    /\ reacting[u].pc = "read"
    /\ LET type == reacting[u].type
           had == reacting[u].had IN
       reactions' = [t \in ValidTypes |->
                       IF type \in had
                       THEN IF t = type THEN PullUser(reactions[t], u) ELSE reactions[t]
                       ELSE IF t = type THEN Append(reactions[t], u)
                            ELSE reactions[t]]
    /\ reacting' = [reacting EXCEPT ![u] = NoReaction]
    /\ UNCHANGED reactionsFrame

\* The route changes the lists of the document read and saves it: the
\* type the user has is pulled; or the user is pulled from every list that
\* held it and pushed to the list of the type.
ReactSave(u) ==
    /\ reacting[u].pc = "read"
    /\ LET type == reacting[u].type
           had == reacting[u].had IN
       reactions' = [t \in ValidTypes |->
                       IF type \in had
                       THEN IF t = type THEN PullUser(reactions[t], u) ELSE reactions[t]
                       ELSE IF t = type THEN Append(reactions[t], u)
                            ELSE IF t \in had THEN PullUser(reactions[t], u)
                            ELSE reactions[t]]
    /\ reacting' = [reacting EXCEPT ![u] = NoReaction]
    /\ UNCHANGED reactionsFrame

ReactionsNext ==
    \/ \E u \in Users, type \in RequestTypes : ReactInvalid(u, type)
    \/ \E u \in Users, type \in RequestTypes : ReactRead(u, type)
    \/ \E u \in Users : ReactSave(u)

Reactions == SmoothInit /\ [][ReactionsNext]_vars

\* -------------------------------------------------------------------- views
\* What the view route leaves as it is.
viewsFrame ==
    <<firestore, kind, jobState, job, pc, loc, quotaErrors, hist, stores,
      saveErrors, settings, getting, reactions, reacting>>

\* POST /api/novels/:id/view without a chapter number: nothing is counted.
ViewNoChapter(r) ==
    /\ viewing[r].pc = "idle"
    /\ UNCHANGED vars

\* The route reads the work and the view key is in viewedBy: nothing is
\* counted.
ViewAlready(r, u, c) ==
    /\ viewing[r].pc = "idle"
    /\ viewedBy[<<u, c>>] > 0
    /\ UNCHANGED vars

\* The route reads the work and the view key is not in viewedBy.
ViewRead(r, u, c) ==
    /\ viewing[r].pc = "idle"
    /\ viewedBy[<<u, c>>] = 0
    /\ viewing' = [viewing EXCEPT ![r] = [pc |-> "read", key |-> <<u, c>>,
                                          views |-> views]]
    /\ UNCHANGED <<views, viewedBy, viewsFrame>>

\* novel.viewedBy.push(viewKey), novel.views += 1, novel.save(): the key
\* is pushed to the array as it is now, the counter is set to the value
\* read plus one.
ViewSave(r) ==
    /\ viewing[r].pc = "read"
    /\ viewedBy' = [viewedBy EXCEPT ![viewing[r].key] = @ + 1]
    /\ views' = viewing[r].views + 1
    /\ viewing' = [viewing EXCEPT ![r] = NoView]
    /\ UNCHANGED viewsFrame

ViewsNext ==
    \/ \E r \in Requests : ViewNoChapter(r)
    \/ \E r \in Requests, u \in Users, c \in Chapters : ViewAlready(r, u, c)
    \/ \E r \in Requests, u \in Users, c \in Chapters : ViewRead(r, u, c)
    \/ \E r \in Requests : ViewSave(r)

Views == SmoothInit /\ [][ViewsNext]_vars

\* ------------------------------------------------ extraction and glossary
\* What the glossary handlers and the upsert loop taken alone leave as it is.
jobVars == <<firestore, site, kind, jobState, job, pc, loc, quotaErrors, hist,
             store, metadata, saveErrors, novelStatus>>

\* Term objects of an extraction answer.
TermObjects ==
    [name : Terms \cup {Missing}, translation : {"x", Missing},
     category : RawCategories \cup {NonString}, description : {Missing}]

\* Bodies of a manual create/update request.
Bodies ==
    [novelId : Works, term : {"a"}, translation : {"y", Missing},
     category : {"items", "ITEMS", "character", Missing}, description : {"d"}]

\* The upsert loop of a translation run over an answer that holds termObj.
UpsertLoop(termObj) ==
    /\ glossary' = UpsertTerms(glossary, TheWork, <<termObj>>)
    /\ UNCHANGED jobVars

\* POST /api/translator/glossary.
GlossaryPost(body) ==
    /\ glossary' = ManualUpsert(glossary, body)
    /\ UNCHANGED jobVars

\* DELETE /api/translator/glossary/:id of the i-th document.
GlossaryDelete(i) ==
    /\ i \in DOMAIN glossary
    /\ glossary' = SubSeq(glossary, 1, i - 1) \o SubSeq(glossary, i + 1, Len(glossary))
    /\ UNCHANGED jobVars

\* The glossary under automatic upserts and the manual requests.
UpsertsNext ==
    \/ \E termObj \in TermObjects : UpsertLoop(termObj)
    \/ \E body \in Bodies : GlossaryPost(body)
    \/ \E i \in 1..Cardinality(Works \X Terms) : GlossaryDelete(i)

Upserts == SmoothInit /\ [][UpsertsNext]_vars

\* One run of a translation job over the whole index, undisturbed by the
\* supervisor: the extraction call gives any of the answers, and the commit
\* may throw.
ExtractionStep(w) ==
    \/ EntryActive(w)
    \/ PrecheckOk(w, TRUE, NumKeys, NumKeys)
    \/ LoopEnd(w)
    \/ CallGeneration(w, "long")
    \/ TranslationText(w)
    \/ \E nonEmpty \in BOOLEAN, answer \in Answers : ExtractCommit(w, nonEmpty, answer)
    \/ \E fails \in CommitFailures, answer \in Answers : FallbackSave(w, fails, answer)
    \/ \E nonEmpty \in BOOLEAN, fails \in CommitFailures, again \in TitleFailures,
          answer \in Answers :
          FallbackFail(w, nonEmpty, fails, again, answer)
    \/ FinalRead(w)
    \/ FinalWrite(w)

ExtractionNext ==
    \/ StartTranslation(SelAll, NumKeys, NumKeys)
    \/ \E w \in Workers : ExtractionStep(w)

Extraction == SmoothInit /\ [][ExtractionNext]_vars

\* ----------------------------------------------------------------- claims
Elems(s) == {s[i] : i \in DOMAIN s}

\* C1: the status of a Job Record only moves active -> paused,
\* paused -> active, active -> completed and active -> failed; completed
\* and failed records are left only by deletion.
AllowedTransitions ==
    { <<"active", "paused">>, <<"paused", "active">>,
      <<"active", "completed">>, <<"active", "failed">> }

C1_StatusTransitions ==
    [][ (Live /\ Live' /\ job'.status # job.status)
           => <<job.status, job'.status>> \in AllowedTransitions ]_vars

\* C2: in every state in which the status is failed, processedCount plus
\* the length of targetChapters is at most totalToProcess, also when a
\* resume launched a run while an earlier run was in flight.
C2_FailedCountsBounded ==
    (Live /\ job.status = "failed")
        => job.processedCount + Len(job.targetChapters) <= job.totalToProcess

\* C3: a run that finds the Job Record missing or not active at entry
\* returns and writes nothing; no run starts a generation call unless its
\* checkpoint read the status active; a run whose checkpoint read another
\* status goes to its final check and, from there on, makes no generation
\* call and writes no chapter field of the Job Record.
ChapterFields(j) == <<j.targetChapters, j.processedCount, j.currentChapter>>

C3_InactiveJobUntouched ==
    [][ \A w \in Workers :
          /\ (pc[w] = "entry" /\ ReadStatus # "active" /\ pc'[w] # "entry")
                => (pc'[w] = "done" /\ job' = job /\ jobState' = jobState)
          /\ (pc'[w] \in InFlight /\ pc[w] \notin InFlight)
                => (pc[w] = "loop" /\ ReadStatus = "active")
          /\ (HasNext(w) /\ ReadStatus # "active" /\ pc'[w] # pc[w])
                => ( /\ pc'[w] = "final"
                     /\ ChapterFields(job') = ChapterFields(job)
                     /\ job'.status = job.status )
          /\ (pc[w] \in {"final", "finalWrite", "done"} /\ pc'[w] # pc[w])
                => ( /\ pc'[w] \in {"finalWrite", "done"}
                     /\ ChapterFields(job') = ChapterFields(job) )
      ]_vars

\* A run broke out of its loop at a checkpoint with chapters left to
\* iterate, and the status is completed or failed.
C3_StoppedAtCheckpoint ==
    \E w \in Workers :
        /\ pc[w] = "final"
        /\ loc[w].idx < Len(loc[w].chaptersToProcess)
        /\ Live
        /\ job.status \in {"completed", "failed"}

\* C4 (undisturbed runs): when a pause is written while the only run of
\* the job has chapter k in flight, the pause stays in force, no chapter
\* other than k is in generation afterwards, chapter k is committed and
\* removed, every other chapter of the queue stays in targetChapters, and
\* the run ends at its next checkpoint with the status paused.
C4_PauseTakesEffectAtNextCheckpoint ==
    hist.run # 0 =>
        LET w == hist.run IN
        /\ job.status = "paused"
        /\ pc[w] \in InFlight \cup {"loop", "final", "done"}
        /\ pc[w] \in InFlight =>
              /\ loc[w].chapterNum = hist.chapter
              /\ job.targetChapters = hist.queue
        /\ pc[w] \notin InFlight =>
              /\ job.targetChapters = Pull(hist.queue, hist.chapter)
              /\ job.currentChapter = hist.chapter

\* The run that had chapter k in flight at the pause has ended, a later
\* chapter is left in the queue and the job is paused.
C4_PausedRunEnded ==
    /\ hist.run # 0
    /\ pc[hist.run] = "done"
    /\ job.status = "paused"
    /\ hist.chapter \in Elems(hist.queue)
    /\ \E c \in Elems(job.targetChapters) : c > hist.chapter

\* C5 (undisturbed runs, no request after the resume): once a paused job
\* is resumed and every run has ended, the status is completed and no
\* chapter is left in targetChapters.
C5_ResumeCompletesTheQueue ==
    (hist.resumed /\ Running = {})
        => (job.status = "completed" /\ job.targetChapters = <<>>)

\* The step is the rate-limit branch of run w.
RateLimited(w) ==
    /\ pc[w] = "gen"
    /\ pc'[w] = "loop"
    /\ quotaErrors' = quotaErrors + 1

\* C6: a rate-limit answer to the first generation call of a chapter leaves
\* targetChapters, processedCount and the status of the Job Record as they
\* are, the iterator yields the same chapter next, and the next attempt
\* uses the next credential of the list in round-robin order.
C6_RateLimitRetriesSameChapter ==
    [][ \A w \in Workers :
          /\ RateLimited(w) =>
                /\ jobState' = jobState
                /\ job'.targetChapters = job.targetChapters
                /\ job'.processedCount = job.processedCount
                /\ job'.status = job.status
                /\ HasNext(w)'
                /\ Take(w)'.chapterNum = loc[w].chapterNum
                /\ CurrentKey(loc'[w]) = (CurrentKey(loc[w]) + 1) % loc[w].keys
          /\ (pc[w] = "loop" /\ pc'[w] = "gen") =>
                CurrentKey(loc'[w]) = CurrentKey(loc[w])
      ]_vars

\* A title-generation run makes its third attempt of a chapter, after two
\* rate-limit answers: the chapter is in the queue, nothing is counted and
\* the rotation is back at the first credential.
C6_ThirdAttempt ==
    \E w \in Workers :
        /\ kind = "titlegen"
        /\ pc[w] = "gen"
        /\ quotaErrors = 2
        /\ loc[w].keyIndex = 2
        /\ CurrentKey(loc[w]) = 0
        /\ Live
        /\ job.status = "active"
        /\ job.processedCount = 0
        /\ loc[w].chapterNum \in Elems(job.targetChapters)

\* C7: no step makes the persisted targetChapters longer, and the queue a
\* run iterates grows only in the rate-limit branch, by the chapter being
\* retried put at its front.
C7_QueueOnlyShrinks ==
    [][ /\ (Live /\ Live') =>
              Len(job'.targetChapters) <= Len(job.targetChapters)
        /\ \A w \in Workers :
              ( /\ pc[w] \in InFlight \cup {"loop"}
                /\ Len(loc'[w].chaptersToProcess) > Len(loc[w].chaptersToProcess) )
                 => ( /\ RateLimited(w)
                      /\ loc'[w].chaptersToProcess
                           = <<loc[w].chapterNum>> \o loc[w].chaptersToProcess )
      ]_vars

\* After a rate-limit retry the queue a run iterates is longer than the
\* job's total, and the persisted queue is not.
C7_LocalQueueGrew ==
    \E w \in Workers :
        /\ Live
        /\ pc[w] = "loop"
        /\ Len(loc[w].chaptersToProcess) > job.totalToProcess
        /\ Len(job.targetChapters) <= job.totalToProcess

\* C8: targetChapters holds no chapter number twice, whatever selector the
\* start request used.
C8_NoDuplicateTargets ==
    Live => \A i, j \in DOMAIN job.targetChapters :
                i # j => job.targetChapters[i] # job.targetChapters[j]

\* C9 as stated: whenever the status is completed, targetChapters is
\* empty.
C9_CompletedMeansEmptyQueue ==
    (Live /\ job.status = "completed") => job.targetChapters = <<>>

\* C9, for title-generation jobs: whenever the status of a title-generation
\* job is completed, targetChapters is empty.
C9_TitleGenCompletedMeansEmptyQueue ==
    (Live /\ kind = "titlegen" /\ job.status = "completed")
        => job.targetChapters = <<>>

\* A title-generation job is completed after its chapters were committed.
C9_TitleGenCompleted ==
    /\ Live
    /\ kind = "titlegen"
    /\ job.status = "completed"
    /\ job.totalToProcess > 0
    /\ job.processedCount >= job.totalToProcess

\* C10: when no run of the job is live, targetChapters is empty or the
\* status is paused, completed or failed; a record never stays active with
\* chapters in its queue and no run to process them.
C10_NoActiveOrphan ==
    (Live /\ job.status = "active" /\ job.targetChapters # <<>>)
        => Running # {}

\* No pause and no resume request was made so far (runs that skip
\* chapters, undisturbed runs): the job is not paused and only the run of
\* the start request was launched.
NoRequestYet ==
    /\ Live
    /\ job.status # "paused"
    /\ \A w \in Workers : w # 1 => pc[w] = "idle"

\* C11 (runs that skip chapters, no request): when the run of a job over
\* the whole index has ended, the status is completed and the processed
\* counter is the number of chapters that were not skipped: the total
\* minus the chapters left in targetChapters.
C11_SkippedChapterStillCompletes ==
    (NoRequestYet /\ pc[1] = "done")
        => /\ job.status = "completed"
           /\ job.processedCount = job.totalToProcess - Len(job.targetChapters)

\* Run w left its loop by the break of a checkpoint: it is at its final
\* check and its iterator has elements left.
BrokeOut(w) ==
    /\ pc[w] \in {"final", "finalWrite"}
    /\ loc[w].idx < Len(loc[w].chaptersToProcess)

\* C12: a run whose loop was broken by a checkpoint that read a status
\* other than active never changes the status of the Job Record
\* afterwards, whatever requests arrive in between.
C12_BrokenRunLeavesStatus ==
    [][ \A w \in Workers :
          (BrokeOut(w) /\ pc'[w] # pc[w] /\ Live) => job'.status = job.status
      ]_vars

\* C13: an error outside the per-chapter handlers (the work is gone at a
\* chapter's reload) writes nothing when it is thrown; the top-level catch
\* then sets the status failed whatever it was, changes no chapter field
\* of the Job Record and nothing in the content store or the work, and the
\* run has ended: it takes no further step.
C13_CrashFailsAndKeepsCommits ==
    [][ \A w \in Workers :
          /\ (pc[w] # "crash" /\ pc'[w] = "crash")
                => (job' = job /\ stores' = stores)
          /\ (pc[w] = "crash" /\ pc'[w] # "crash")
                => ( /\ pc'[w] = "done"
                     /\ jobState' = jobState
                     /\ Live => job'.status = "failed"
                     /\ ChapterFields(job') = ChapterFields(job)
                     /\ stores' = stores )
          /\ pc[w] = "done" => pc'[w] = "done"
      ]_vars

\* The only run of a job committed chapter 1 and then ended in the
\* top-level catch: the job is failed, the chapter is counted, out of the
\* queue and its title is in both stores.
C13_FailedAfterCommit ==
    /\ Live
    /\ job.status = "failed"
    /\ pc[1] = "done"
    /\ \A w \in Workers : w # 1 => pc[w] = "idle"
    /\ job.processedCount >= 1
    /\ job.currentChapter = 1
    /\ 1 \notin Elems(job.targetChapters)
    /\ store[1].title # "orig"
    /\ metadata[1] = store[1].title

\* C14: a run leaves its configuration check either into its loop, with
\* the content store connected and a credential list that is not empty
\* (the job's own keys when it has some), the Job Record unchanged; or by
\* returning, with the status failed and an error log, the chapter fields
\* of the Job Record, the content store and the work unchanged.  It makes
\* no generation call and, once returned, takes no further step.
C14_PreconditionFailureFailsJob ==
    [][ \A w \in Workers :
          (pc[w] = "precheck" /\ pc'[w] # "precheck") =>
             \/ /\ pc'[w] = "loop"
                /\ firestore
                /\ loc'[w].keys > 0
                /\ (kind = "translation" /\ loc[w].apiKeys > 0)
                      => loc'[w].keys = loc[w].apiKeys
                /\ job' = job
                /\ stores' = stores
             \/ /\ pc'[w] = "done"
                /\ jobState' = jobState
                /\ Live => (job'.status = "failed" /\ job'.lastLog = "error")
                /\ ChapterFields(job') = ChapterFields(job)
                /\ stores' = stores
      ]_vars

\* The only run of a one-chapter job returned from its configuration
\* check: the job is failed with an error log as its last entry, nothing
\* is counted and the chapter is in the queue.
C14_FailedAtStart ==
    /\ Live
    /\ job.status = "failed"
    /\ job.lastLog = "error"
    /\ job.totalToProcess = 1
    /\ Len(job.targetChapters) = 1
    /\ job.processedCount = 0
    /\ quotaErrors = 0
    /\ pc[1] = "done"
    /\ \A w \in Workers : w # 1 => pc[w] = "idle"
    /\ firestore

\* The main commit of run w fails on a chapter whose translation text is
\* not empty: the extraction call or one of its writes throws.
MainCommitFailsWithText(w) ==
    \/ \E fails \in CommitFailures, answer \in Answers : FallbackSave(w, fails, answer)
    \/ \E fails \in CommitFailures, again \in TitleFailures, answer \in Answers :
          FallbackFail(w, TRUE, fails, again, answer)

\* What the fallback save leaves for chapter c of run w: the translated
\* content in the content store, the chapter out of targetChapters, the
\* status and the processed counter as they were, the run back in its loop.
FallbackSaved(w, c) ==
    /\ c \in Tracked => store'[c].content = "translated"
    /\ Live => /\ c \notin Elems(job'.targetChapters)
               /\ job'.status = job.status
               /\ job'.processedCount = job.processedCount
    /\ pc'[w] = "loop"

C16_FallbackTitleIsDefault ==
    [][ \A w \in Workers :
          ( /\ pc[w] = "extract"
            /\ pc'[w] = "loop"
            /\ Live
            /\ job'.lastLog = "warning"
            /\ loc[w].chapterNum \in Tracked )
          => /\ metadata'[loc[w].chapterNum] = "default"
             /\ store'[loc[w].chapterNum].title # "derived"
      ]_vars

\* C17: when a run leaves its first generation call writing an error log
\* (the last log becomes an error) and no write has failed (the call
\* failed, and not on a rate limit), the
\* content store and the work are unchanged, the chapter fields of the Job
\* Record and its status are unchanged, and the run is back in its loop
\* with its local list and its position in it unchanged: the next
\* iteration takes the next chapter.
C17_GenerationErrorSkipsChapter ==
    [][ \A w \in Workers :
          ( /\ pc[w] = "gen"
            /\ pc'[w] # "gen"
            /\ Live
            /\ job.lastLog # "error"
            /\ job'.lastLog = "error"
            /\ saveErrors' = saveErrors )
          => /\ stores' = stores
             /\ ChapterFields(job') = ChapterFields(job)
             /\ job'.status = job.status
             /\ pc'[w] = "loop"
             /\ loc'[w] = loc[w]
      ]_vars

\* The first run logged the failure of a generation call on a chapter
\* that is still in the queue, with no rate limit and no failed write so
\* far, and is back in its loop; the job is active and nothing is counted.
C17_ErrorLoggedChapterKept ==
    /\ Live
    /\ job.status = "active"
    /\ job.lastLog = "error"
    /\ job.processedCount = 0
    /\ saveErrors = 0
    /\ quotaErrors = 0
    /\ pc[1] = "loop"
    /\ loc[1].idx >= 1
    /\ loc[1].chapterNum \in Elems(job.targetChapters)
    /\ \A w \in Workers : w # 1 => pc[w] = "idle"

\* C18: when a run takes a chapter from its list and is back in its loop
\* in the same step (the chapter is skipped: not in the index of the work,
\* or its source text missing or too short), the step appends a warning
\* log and changes nothing else: the status and the chapter fields of the
\* Job Record, the content store and the work are unchanged, and no
\* generation call is made.
C18_SkipLeavesEverything ==
    [][ \A w \in Workers :
          ( /\ pc[w] = "loop"
            /\ pc'[w] = "loop"
            /\ loc'[w].idx = loc[w].idx + 1 )
          => /\ Live => /\ job'.lastLog = "warning"
                        /\ job'.status = job.status
             /\ ChapterFields(job') = ChapterFields(job)
             /\ stores' = stores
             /\ quotaErrors' = quotaErrors
             /\ loc'[w].chaptersToProcess = loc[w].chaptersToProcess
             /\ loc'[w].keyIndex = loc[w].keyIndex
      ]_vars

\* The first run skipped a chapter: it is back in its loop with a warning
\* as the last log, the chapter still in the queue and nothing counted;
\* no rate limit, no failed write and no pause happened.
C18_SkippedChapterKept ==
    /\ Live
    /\ job.status = "active"
    /\ job.lastLog = "warning"
    /\ job.processedCount = 0
    /\ job.currentChapter = 0
    /\ saveErrors = 0
    /\ quotaErrors = 0
    /\ pc[1] = "loop"
    /\ loc[1].idx >= 1
    /\ loc[1].chapterNum \in Elems(job.targetChapters)
    /\ \A w \in Workers : w # 1 => pc[w] = "idle"

\* C19: when a write fails while a title-generation run commits a
\* generated title, the step appends an error log and leaves the status
\* and the chapter fields of the Job Record unchanged (the chapter is in
\* the queue if it was, the counter is not incremented), and the run is
\* back in its loop with its local list and its position unchanged.
C19_TitleSaveErrorKeepsChapter ==
    [][ \A w \in Workers :
          ( /\ kind = "titlegen"
            /\ pc[w] = "gen"
            /\ pc'[w] # "gen"
            /\ saveErrors' # saveErrors )
          => /\ Live => /\ job'.lastLog = "error"
                        /\ job'.status = job.status
             /\ ChapterFields(job') = ChapterFields(job)
             /\ pc'[w] = "loop"
             /\ loc'[w] = [loc[w] EXCEPT !.delay = "chapter"]
      ]_vars

\* A write of the first title-generation run's commit failed: the run is
\* back in its loop with an error as the last log, the chapter still in
\* the queue, nothing counted and the job active.
C19_UncommittedChapterKept ==
    /\ Live
    /\ kind = "titlegen"
    /\ job.status = "active"
    /\ job.lastLog = "error"
    /\ job.processedCount = 0
    /\ saveErrors = 1
    /\ pc[1] = "loop"
    /\ loc[1].idx >= 1
    /\ loc[1].chapterNum \in Elems(job.targetChapters)
    /\ \A w \in Workers : w # 1 => pc[w] = "idle"

\* C20: every step that changes the title of a chapter in the content
\* store or in the work leaves the two titles of that chapter equal.
C20_TitlesStayConsistent ==
    [][ \A c \in Tracked :
          (store'[c].title # store[c].title \/ metadata'[c] # metadata[c])
             => store'[c].title = metadata'[c]
      ]_vars

\* C21: once the Job Record is deleted it stays deleted and no step writes
\* it; a run that has no chapter in flight starts none (from its loop it
\* goes to its final check only), and the content store and the work are
\* written only by a run that had a chapter in flight.
C21_DeletedRecordStaysDeleted ==
    [][ jobState = "deleted" =>
          /\ jobState' = "deleted"
          /\ job' = job
          /\ \A w \in Workers :
               /\ pc[w] \notin InFlight => pc'[w] \notin InFlight
               /\ (pc[w] = "loop" /\ pc'[w] # "loop") => pc'[w] = "final"
               /\ (pc[w] = "final" /\ pc'[w] # "final") => pc'[w] = "done"
          /\ stores' # stores =>
               \E w \in Workers : pc[w] \in InFlight /\ pc'[w] = "loop"
      ]_vars

\* The record is deleted and the first run, which committed chapter 1 of
\* the queue [1, 2], has left its loop at the checkpoint of chapter 2 or
\* after it.
C21_OrphanStopped ==
    /\ jobState = "deleted"
    /\ pc[1] = "final"
    /\ loc[1].chaptersToProcess = <<1, 2>>
    /\ loc[1].chapterNum = 2
    /\ store[1].title # "orig"
    /\ \A w \in Workers : w # 1 => pc[w] = "idle"

\* Positions of a run inside its loop.
InLoop == {"loop", "gen", "extract"}

\* C22: a run that has a generation call in flight has a credential list
\* that is not empty, and the call uses the credential at the position
\* keyIndex mod keys.length of it.  While the run is in its loop its key
\* index changes only by +1, and exactly on the steps in which the first
\* generation call fails on a rate limit and, in translation, in which the
\* extraction call is made.
C22_KeyIndexAdvancesByOne ==
    [][ \A w \in Workers :
          /\ pc'[w] \in InFlight =>
               /\ loc'[w].keys > 0
               /\ CurrentKey(loc'[w]) \in 0..(loc'[w].keys - 1)
               /\ (loc'[w].keyIndex - CurrentKey(loc'[w])) % loc'[w].keys = 0
          /\ (pc[w] \in InLoop /\ pc'[w] \in InLoop) =>
               LET rateLimited == /\ pc[w] = "gen"
                                  /\ pc'[w] = "loop"
                                  /\ quotaErrors' = quotaErrors + 1
                   extraction  == /\ pc[w] = "gen"
                                  /\ pc'[w] = "extract"
               IN  /\ loc'[w].keys = loc[w].keys
                   /\ loc'[w].keyIndex =
                        IF rateLimited \/ extraction
                        THEN loc[w].keyIndex + 1
                        ELSE loc[w].keyIndex
      ]_vars

\* The first translation run makes an extraction call after one rate
\* limit: its key index has advanced twice and the call uses the first
\* credential of the list again.
C22_KeyIndexWrapped ==
    /\ kind = "translation"
    /\ pc[1] = "extract"
    /\ quotaErrors = 1
    /\ loc[1].keyIndex = NumKeys
    /\ CurrentKey(loc[1]) = 0
    /\ \A w \in Workers : w # 1 => pc[w] = "idle"

\* C23: every run enters its loop with the key index 0, whatever the key
\* index of the other runs of the job is, and keeps it 0 over the chapters
\* it skips and up to its first generation call, which so uses the first
\* credential of the list.
C23_KeyIndexStartsAtZero ==
    [][ \A w \in Workers :
          /\ (pc[w] = "precheck" /\ pc'[w] = "loop") => loc'[w].keyIndex = 0
          /\ (pc[w] = "loop" /\ loc[w].keyIndex = 0 /\ pc'[w] \in {"loop", "gen"})
                => /\ loc'[w].keyIndex = 0
                   /\ pc'[w] = "gen" => CurrentKey(loc'[w]) = 0
      ]_vars

\* A run launched by resume makes its first generation call with the key
\* index 0 after the first run, which has returned, was rate limited.
C23_ResumedRunUsesFirstKey ==
    /\ pc[1] = "done"
    /\ pc[2] = "gen"
    /\ quotaErrors >= 1
    /\ loc[2].keyIndex = 0
    /\ CurrentKey(loc[2]) = 0

\* Run w takes a chapter from its list and the checkpoint lets it through:
\* the chapter is attempted.
Attempts(w) ==
    /\ pc[w] = "loop"
    /\ loc'[w].idx = loc[w].idx + 1
    /\ pc'[w] # "final"

\* C24: the chapter a run attempts is never smaller than the one it
\* attempted before, and as long as no rate limit has occurred it is
\* greater: without a rate-limit error no chapter is attempted twice in a
\* row.
C24_AttemptsAscend ==
    [][ \A w \in Workers :
          (Attempts(w) /\ loc[w].idx >= 1) =>
             /\ loc'[w].chapterNum >= loc[w].chapterNum
             /\ quotaErrors = 0 => loc'[w].chapterNum > loc[w].chapterNum
      ]_vars

\* C25: a start request creates the Job Record (there was none), with the
\* status active, the processed counter 0, targetChapters the chapters its
\* selector selects (all chapters of the work, the given list, or the
\* chapters from N on) and totalToProcess their number.
C25_StartCreatesSelectedQueue ==
    [][ \A sel \in Selectors :
          ( \/ StartTitleGen(sel)
            \/ \E apiKeys, savedKeys \in KeyCounts :
                  StartTranslation(sel, apiKeys, savedKeys) )
          => /\ jobState = "none"
             /\ jobState' = "live"
             /\ job'.status = "active"
             /\ job'.processedCount = 0
             /\ job'.targetChapters = TargetOf(sel)
             /\ job'.totalToProcess = Len(TargetOf(sel))
      ]_vars

\* C26: applying an upsert a second time with the same payload leaves the
\* glossary as the first application left it, for the automatic upsert of
\* a term object and for the manual create/update of a request body, from
\* every state of the glossary.
C26_UpsertIdempotent ==
    /\ \A termObj \in TermObjects :
          LET once == UpsertTerms(glossary, TheWork, <<termObj>>)
          IN  UpsertTerms(once, TheWork, <<termObj>>) = once
    /\ \A body \in Bodies :
          LET once == ManualUpsert(glossary, body)
          IN  ManualUpsert(once, body) = once

\* The glossary holds a term of the job's work that a manual request
\* created and an automatic upsert wrote afterwards, and a second term.
C26_ManualTermRewritten ==
    /\ Len(glossary) >= 2
    /\ \E i \in DOMAIN glossary :
          /\ glossary[i].novelId = TheWork
          /\ glossary[i].term = "a"
          /\ glossary[i].translation = "x"
          /\ ~glossary[i].autoGenerated

\* The key of a glossary document.
KeyOf(doc) == <<doc.novelId, doc.term>>

\* C27: every step leaves at most one document per (work id, source term)
\* in the glossary; an automatic upsert of a term the glossary holds
\* leaves the number of documents as it is and sets the translation, the
\* category and the description of the term's document.
C27_OneDocumentPerTerm ==
    [][ /\ \A i, j \in DOMAIN glossary' :
             KeyOf(glossary'[i]) = KeyOf(glossary'[j]) => i = j
        /\ \A termObj \in TermObjects :
             ( /\ UpsertLoop(termObj)
               /\ termObj.name # Missing
               /\ termObj.translation # Missing
               /\ \E i \in DOMAIN glossary : KeyOf(glossary[i]) = <<TheWork, termObj.name>> )
             => /\ Len(glossary') = Len(glossary)
                /\ \A i \in DOMAIN glossary :
                     IF KeyOf(glossary[i]) = <<TheWork, termObj.name>>
                     THEN /\ KeyOf(glossary'[i]) = KeyOf(glossary[i])
                          /\ glossary'[i].translation = termObj.translation
                          /\ glossary'[i].category \in Categories
                          /\ glossary'[i].description = ""
                     ELSE glossary'[i] = glossary[i]
      ]_vars

\* The glossary holds the same term for two works and two terms for the
\* job's work.
C27_ThreeKeys ==
    /\ Len(glossary) = 3
    /\ \E i, j, k \in DOMAIN glossary :
          /\ KeyOf(glossary[i]) = <<"w1", "a">>
          /\ KeyOf(glossary[j]) = <<"w2", "a">>
          /\ KeyOf(glossary[k]) = <<"w1", "b">>

\* Answers that are not JSON or JSON of the wrong shape without an element
\* on which the upsert loop throws.
MalformedAnswers == {"invalid", "strings", "object"}

\* C28: when the extraction call returns text that is not JSON, or JSON of
\* the wrong shape, the commit of the chapter upserts no glossary term,
\* saves the translated text to the content store, leaves the status of the
\* job as it is and goes on to the next chapter of the queue: by the main
\* commit when the upsert loop does not throw, by the fallback save of a
\* text that is not empty when it throws on a null element.
C28_MalformedAnswerKeepsContent ==
    [][\A w \in Workers :
          LET c == loc[w].chapterNum
              Continues == /\ glossary' = glossary
                           /\ job'.status = job.status
                           /\ c \notin Elems(job'.targetChapters)
                           /\ pc'[w] = "loop"
                           /\ loc'[w] = [loc[w] EXCEPT !.delay = "chapter"]
          IN  /\ \A answer \in MalformedAnswers, nonEmpty \in BOOLEAN :
                    ExtractCommit(w, nonEmpty, answer) =>
                       /\ Continues
                       /\ c \in Tracked => store'[c].content = Translated(nonEmpty)
                       /\ job'.processedCount = job.processedCount + 1
              /\ FallbackSave(w, "extract", "nulls") =>
                       /\ Continues
                       /\ c \in Tracked => store'[c].content = "translated"
      ]_vars

\* The run has committed both chapters and the fallback save was one of the
\* two commits, and the glossary is still empty.
C28_SavedWithoutTerms ==
    /\ glossary = <<>>
    /\ job.status = "active"
    /\ job.targetChapters = <<>>
    /\ job.processedCount = 1
    /\ saveErrors = 1
    /\ \E c \in Tracked : store[c].content = "translated"

\* Run w makes a generation call: a step of w that ends at the call.
GenerationCall(w) == pc'[w] = "gen" /\ loc'[w] # loc[w]

\* C29: the checkpoint is evaluated before every generation call, the
\* re-attempts after a rate-limit error included: a call is made only by a
\* step that read the status active at the head of the loop; a run that
\* reads the status paused there goes to the final check, and from the
\* final check of a paused job it returns; so a run at the head of the loop
\* of a paused job that is not resumed ends.
C29_PauseStopsRetries ==
    /\ [][\A w \in Workers :
             /\ GenerationCall(w) => pc[w] = "loop" /\ ReadStatus = "active"
             /\ pc[w] = "loop" /\ job.status = "paused" =>
                   \/ pc'[w] = "loop" /\ loc'[w] = loc[w]
                   \/ pc'[w] = "final"
             /\ pc[w] = "final" /\ job.status = "paused" =>
                   pc'[w] \in {"final", "done"}
       ]_vars
    /\ \A w \in Workers :
          (pc[w] \in {"loop", "final"} /\ job.status = "paused")
             ~> (pc[w] = "done" \/ job.status # "paused")

\* A run was answered with rate-limit errors only, and the checkpoint of
\* its third attempt read the pause.
C29_StoppedBetweenRetries ==
    \E w \in Workers :
       /\ pc[w] = "final"
       /\ job.status = "paused"
       /\ quotaErrors = 2
       /\ loc[w].idx = 3
       /\ loc[w].keyIndex = 2
       /\ Len(loc[w].chaptersToProcess) = Len(job.targetChapters) + 2

\* The category the mapping is to give for each value of the extracted
\* category.
CategoryTable ==
    [raw \in RawCategories |->
       CASE raw \in {"character", "Character", "characters"} -> "characters"
         [] raw \in {"location", "locations"} -> "locations"
         [] raw \in {"item", "items", "ITEMS"} -> "items"
         [] raw \in {"rank", "ranks"} -> "ranks"
         [] raw \in {"concept", "Concept", "other", "skill", Missing} -> "other"]

\* C30: every category held by the glossary is one of characters,
\* locations, items, ranks, other, and an automatic upsert of a term stores
\* the category the mapping gives for the extracted one: the singular names
\* to the plural ones, concept to other, the plural names to themselves,
\* every other value and a missing one to other, whatever the case of the
\* letters.
C30_CategoryMapping ==
    /\ [](\A i \in DOMAIN glossary : glossary[i].category \in Categories)
    /\ [][\A termObj \in TermObjects :
             (/\ UpsertLoop(termObj)
              /\ termObj.name # Missing
              /\ termObj.translation # Missing
              /\ termObj.category \in RawCategories)
             => \E i \in Matching(glossary', TheWork, termObj.name) :
                   glossary'[i].category = CategoryTable[termObj.category]
       ]_vars

\* The glossary holds a term extracted with a category the mapping puts
\* under characters and one it puts under other.
C30_MappedTerms ==
    \E i, j \in DOMAIN glossary :
       /\ glossary[i].autoGenerated /\ glossary[i].category = "characters"
       /\ glossary[j].autoGenerated /\ glossary[j].category = "other"
       /\ glossary[i].novelId = TheWork /\ glossary[j].novelId = TheWork

\* C31: the status of the work is changed only from private to ongoing, by
\* the commit of a translated chapter (main or fallback path) of a run whose
\* iteration read the work as private; while the job is a title-generation
\* job no step changes the status of the work or the content of a chapter.
C31_OnlyPrivateToOngoing ==
    [][ /\ novelStatus' # novelStatus =>
             /\ novelStatus = "private"
             /\ novelStatus' = "ongoing"
             /\ kind = "translation"
             /\ \E w \in Workers :
                   /\ pc[w] = "extract"
                   /\ pc'[w] = "loop"
                   /\ loc[w].novelStatus = "private"
        /\ kind = "titlegen" /\ kind' = "titlegen" =>
             /\ novelStatus' = novelStatus
             /\ \A c \in Tracked : store'[c].content = store[c].content
      ]_vars

\* A run that read the work as private has committed a chapter by the
\* fallback save, and the work is ongoing.
C31_PublishedByFallback ==
    \E w \in Workers :
       /\ kind = "translation"
       /\ pc[w] = "loop"
       /\ loc[w].novelStatus = "private"
       /\ novelStatus = "ongoing"
       /\ job.lastLog = "warning"
       /\ job.processedCount = 0
       /\ saveErrors = 1

\* A step of run w that ends a chapter iteration otherwise than by the
\* rate-limit branch: from the calls back to the head of the loop, or from
\* the head of the loop to the head of the loop with a chapter taken.
IterationEnds(w) ==
    /\ pc'[w] = "loop"
    /\ quotaErrors' = quotaErrors
    /\ \/ pc[w] \in {"gen", "extract"}
       \/ pc[w] = "loop" /\ loc'[w].idx # loc[w].idx

\* C32: every chapter iteration ends with the inter-chapter delay whatever
\* its outcome: after a commit, a skipped chapter, a generation error that
\* is not a rate limit or a failed save, the run has slept the delay when
\* it is back at the checkpoint.
C32_EveryIterationEndsWithDelay ==
    [][\A w \in Workers : IterationEnds(w) => loc'[w].delay = "chapter"]_vars

\* A step of a worker run that is launched.
WorkerMoves ==
    \E w \in Workers :
       /\ pc[w] # "idle"
       /\ pc'[w] # pc[w] \/ loc'[w] # loc[w]

C34_CountPlusQueueIsTotal ==
    /\ [](Live => job.processedCount + Len(job.targetChapters) = job.totalToProcess)
    /\ [][ (Live /\ Live' /\ job'.targetChapters # job.targetChapters) =>
              \E c \in Elems(job.targetChapters) :
                 /\ job'.targetChapters = Pull(job.targetChapters, c)
                 /\ job'.processedCount = job.processedCount + 1
                 /\ job'.currentChapter = c
         ]_vars

\* The second run of the job, launched after the first returned, has met a
\* rate limit and a failed save; one chapter is counted and one is queued.
C34_SecondRunHalfWay ==
    /\ Live
    /\ pc[1] = "done"
    /\ pc[2] = "loop"
    /\ quotaErrors >= 1
    /\ saveErrors = 1
    /\ job.processedCount = 1
    /\ Len(job.targetChapters) = 1
    /\ job.totalToProcess = 2

\* C35: at most one run of a job is past an active checkpoint and not yet
\* back from its chapter: no two runs have a chapter in flight at once.
C35_OneRunInFlight ==
    \A v, w \in Workers :
       (pc[v] \in InFlight /\ pc[w] \in InFlight) => v = w

\* The autoGenerated flags of the documents of g, by key.
Flags(g) == {<<KeyOf(g[i]), g[i].autoGenerated>> : i \in DOMAIN g}

\* C37: an automatic upsert leaves the autoGenerated flag of every term
\* that exists as it is and sets it to true on the term it inserts, while
\* its translation, category and description are overwritten; a manual
\* create/update leaves its term with the flag false and the flags of the
\* other terms as they are.
C37_FlagSetOnInsertOnly ==
    [][ /\ \A termObj \in TermObjects :
             UpsertLoop(termObj) =>
                /\ Flags(glossary) \subseteq Flags(glossary')
                /\ \A i \in DOMAIN glossary' :
                      i \notin DOMAIN glossary => glossary'[i].autoGenerated
                /\ \A i \in DOMAIN glossary :
                      (KeyOf(glossary[i]) = <<TheWork, termObj.name>>
                         /\ termObj.translation # Missing)
                      => glossary'[i].translation = termObj.translation
        /\ \A body \in Bodies :
             GlossaryPost(body) =>
                /\ \A i \in DOMAIN glossary' :
                      IF KeyOf(glossary'[i]) = <<body.novelId, body.term>>
                      THEN ~glossary'[i].autoGenerated
                      ELSE i \in DOMAIN glossary /\ glossary'[i] = glossary[i]
      ]_vars

\* A term entered by hand was overwritten by an extraction and is still
\* not autoGenerated, next to a term the pipeline created.
C37_ManualTermOverwritten ==
    \E i, j \in DOMAIN glossary :
       /\ KeyOf(glossary[i]) = <<TheWork, "a">>
       /\ ~glossary[i].autoGenerated
       /\ glossary[i].translation = "x"
       /\ glossary[i].description = ""
       /\ KeyOf(glossary[j]) = <<TheWork, "b">>
       /\ glossary[j].autoGenerated

\* C36: the settings record is a singleton: whatever calls of
\* getGlobalSettings have run, at once or one after the other, the
\* Settings collection holds at most one document.
C36_OneSettingsRecord == settings <= 1

\* The types whose list holds user u.
TypesOf(lists, u) == {t \in ValidTypes : Includes(lists[t], u)}

\* C38: each user id is in at most one of the five reaction lists and at
\* most once in it; the lists change only when a request with a valid type
\* is saved: a request with the type the user has removes the user from
\* every list, a request with another type leaves the user in the list of
\* that type alone, and the other users stay where they are.
C38_OneReactionPerUser ==
    /\ [](\A u \in Users :
             Cardinality({p \in {q \in ValidTypes \X (1..NumUsers) :
                                    q[2] \in DOMAIN reactions[q[1]]} :
                            reactions[p[1]][p[2]] = u}) <= 1)
    /\ [][ /\ \A u \in Users :
                ReactSave(u) =>
                   /\ TypesOf(reactions', u) =
                         IF Includes(reactions[reacting[u].type], u)
                         THEN {}
                         ELSE {reacting[u].type}
                   /\ \A v \in Users \ {u} :
                         TypesOf(reactions', v) = TypesOf(reactions, v)
           /\ reactions' # reactions =>
                \E u \in Users : reacting[u].pc = "read"
                                    /\ reacting[u].type \in ValidTypes
                                    /\ reacting'[u].pc = "idle"
           /\ \A t \in ValidTypes : Len(reactions'[t]) <= NumUsers
         ]_vars

\* User 2 is sad, user 1 loves the work and has asked for love again: the
\* request is read and not yet saved.
C38_AboutToRemove ==
    /\ reactions["sad"] = <<2>>
    /\ reactions["love"] = <<1>>
    /\ reacting[1].pc = "read"
    /\ reacting[1].type = "love"
    /\ reacting[1].had = {"love"}

\* C39: views is the number of distinct view keys of viewedBy, and
\* viewedBy holds no key twice, whatever view requests have run, at once or
\* one after the other.
C39_ViewsCountDistinctKeys ==
    /\ views = Cardinality({k \in ViewKeys : viewedBy[k] > 0})
    /\ \A k \in ViewKeys : viewedBy[k] <= 1
====
